---------------------------- MODULE Spec2Model ----------------------------
(***************************************************************************)
(* Model of mgadl.py: the MG-ADL questionnaire wizard (three steps kept in *)
(* st.session_state) and its append of one record to a shared worksheet.   *)
(*                                                                         *)
(* Conventions.  Python strings the program computes are sequences, so the *)
(* empty string and None are both the empty sequence (the program only     *)
(* tests them for truthiness).  A sha256 digest is modelled by the tuple   *)
(* of what was hashed: equal inputs give equal digests, different inputs   *)
(* different ones (no collisions).  One step of the model is one script    *)
(* run of Streamlit: the handler of the widget that fired, followed, where *)
(* the handler calls st.rerun(), by the step guards of the next run.       *)
(***************************************************************************)
EXTENDS Integers, Sequences, FiniteSets, TLC

VARIABLES
    secrets,        \* st.secrets as read at lines 16-20
    session_state,  \* st.session_state (lines 205-230)
    now,            \* the last reading of datetime.now(), in whole seconds
    backend,        \* the worksheet and the cached client; the record given to
                    \* the last call of append_record_to_sheet; and the trace
                    \* of the last script run: its backend calls, the header
                    \* ensure_header returned, the exception the append raised
    last,           \* the widget whose handler ran in the last script run
    appends         \* the calls of append_record_to_sheet that sessions have
                    \* in progress at the same time: per session its record,
                    \* the line it is at and its locals (empty where one
                    \* session is looked at alone)

vars == <<secrets, session_state, now, backend, last, appends>>

None == <<>>

---------------------------------------------------------------------------
(* Bounds of the model *)

\* no append is attempted once the worksheet holds this many rows
MaxSheetRows == 3

\* the length of the generated start headers of the header specification
MaxHdrLen == 2

---------------------------------------------------------------------------
(* Static data *)

ITEMS ==
    << "mgadl_01_talking", "mgadl_02_chewing", "mgadl_03_swallowing",
       "mgadl_04_breathing", "mgadl_05_brush_teeth_hair",
       "mgadl_06_arise_from_chair", "mgadl_07_diplopia", "mgadl_08_ptosis" >>

ItemIds == { ITEMS[i] : i \in 1..Len(ITEMS) }

\* the keys of every item's "choices"
Choices == 0..3

EXPECTED_HEADER ==
    << "created_at", "submission_id", "name", "dob", "patient_hash",
       "total_score" >> \o ITEMS

SALT == "salt"

WORKSHEET_NAME == "responses"

---------------------------------------------------------------------------
(* Inputs *)

\* what the user may type in the name field: a blank, a padded and a plain name
NameInputs == { <<" ">>, <<" ", "k", " ">>, <<"l">> }

\* what the date input returns: nothing selected, or a date
DobInputs == { None, [year |-> 1970, month |-> 1, day |-> 2] }

PwInputs == { "pw", "bad" }

\* what datetime.now() may read, in whole seconds: two completions can fall
\* into the same second or into different ones
ClockReadings == { 0, 1 }

\* the deployments: complete, and with one secret missing
SecretsChoices ==
    { [APP_PASSWORD |-> "pw", SHEET_ID |-> "sheet", SA_INFO |-> <<"sa">>],
      [APP_PASSWORD |-> "",   SHEET_ID |-> "sheet", SA_INFO |-> <<"sa">>],
      [APP_PASSWORD |-> "pw", SHEET_ID |-> "",      SA_INFO |-> <<"sa">>],
      [APP_PASSWORD |-> "pw", SHEET_ID |-> "sheet", SA_INFO |-> None] }

\* the survey form always yields one score per item (a radio has a selection)
ScenarioResponses ==
    [ id \in ItemIds |->
        CASE id = "mgadl_01_talking" -> 1
          [] id = "mgadl_03_swallowing" -> 2
          [] id = "mgadl_05_brush_teeth_hair" -> 1
          [] id = "mgadl_08_ptosis" -> 1
          [] OTHER -> 0 ]

ResponseInputs == { [id \in ItemIds |-> 0], ScenarioResponses }

\* the backend call that raises during an append ("none": no call raises):
\* opening the spreadsheet, the first read of ensure_header, its write of
\* row 1 (append_row or update), the append of the data row; a raising call
\* has no effect on the sheet
Faults == { "none", "open_by_key", "get_all_values", "write_header", "append_row" }

---------------------------------------------------------------------------
(* Utilities (lines 86-98) *)

RECURSIVE SumScores(_, _)
SumScores(responses, keys) ==
    IF keys = {} THEN 0
    ELSE LET k == CHOOSE x \in keys : TRUE
         IN responses[k] + SumScores(responses, keys \ {k})

\* the sum taken over the set of the values: equal scores are counted once
compute_total_DistinctValues(responses) ==
    LET values == { responses[k] : k \in DOMAIN responses }
    IN SumScores([v \in values |-> v], values)

compute_total(responses) == SumScores(responses, DOMAIN responses)

make_patient_hash(name, dob) == << "sha256", name, dob, SALT >>

\* json.dumps(responses, sort_keys=True): the pairs in key order (the item ids
\* sort in the order of ITEMS)
RECURSIVE JsonDumps(_, _)
JsonDumps(responses, i) ==
    IF i > Len(ITEMS) THEN <<>>
    ELSE (IF ITEMS[i] \in DOMAIN responses
          THEN << <<ITEMS[i], responses[ITEMS[i]]>> >>
          ELSE <<>>) \o JsonDumps(responses, i + 1)

make_submission_id(patient_hash, created_at, responses) ==
    << "sha256", patient_hash, created_at, JsonDumps(responses, 1) >>

\* str.strip() on a sequence of characters
RECURSIVE LStrip(_)
LStrip(s) == IF s # <<>> /\ Head(s) = " " THEN LStrip(Tail(s)) ELSE s

RECURSIVE RStrip(_)
RStrip(s) ==
    IF s # <<>> /\ s[Len(s)] = " " THEN RStrip(SubSeq(s, 1, Len(s) - 1)) ELSE s

Strip(s) == RStrip(LStrip(s))

\* date.isoformat(): year, month and day in this order
DateIsoFormat(d) == << d.year, d.month, d.day >>

\* datetime.isoformat(timespec="seconds") of a clock reading
TimeIsoFormat(t) == << "T", t >>

---------------------------------------------------------------------------
(* The worksheet: a sequence of rows, each a sequence of cells.  A blank   *)
(* row is the empty sequence; the backend never reports trailing blank     *)
(* cells of a row.                                                         *)

\* one more backend call in the trace of the running append
Called(b, op) == [b EXCEPT !.calls = Append(@, op)]

RECURSIVE TrimTrailing(_)
TrimTrailing(row) ==
    IF row # <<>> /\ row[Len(row)] = ""
    THEN TrimTrailing(SubSeq(row, 1, Len(row) - 1))
    ELSE row

\* ws.get_all_values(): the rows up to the last one that holds a value
get_all_values(sheet) == sheet

\* ws.row_values(1)
row_values(sheet, n) == IF n <= Len(sheet) THEN TrimTrailing(sheet[n]) ELSE <<>>

\* ws.update("1:1", [values]): writes the cells from A1 on, keeps the others
update_row1(sheet, values) ==
    LET old == IF Len(sheet) >= 1 THEN sheet[1] ELSE <<>>
        row == values \o SubSeq(old, Len(values) + 1, Len(old))
    IN IF Len(sheet) >= 1 THEN [sheet EXCEPT ![1] = row] ELSE << row >>

\* ws.append_row(values): a new row after the last one
append_row(sheet, values) == Append(sheet, values)

\* h not in current, for h in EXPECTED_HEADER
RECURSIVE MissingFrom(_, _)
MissingFrom(current, i) ==
    IF i > Len(EXPECTED_HEADER) THEN <<>>
    ELSE (IF \E j \in 1..Len(current) : current[j] = EXPECTED_HEADER[i]
          THEN <<>>
          ELSE << EXPECTED_HEADER[i] >>) \o MissingFrom(current, i + 1)

\* line 133 without its condition: every expected column counts as missing
missing_Unfiltered(current) == EXPECTED_HEADER

missing(current) == MissingFrom(current, 1)

\* the outcome of a call chain: whether it raised, the backend it leaves,
\* and what it returns
Raised(b, e)   == [raised |-> TRUE,  b |-> b, error |-> e, value |-> None]
Returned(b, v) == [raised |-> FALSE, b |-> b, error |-> None, value |-> v]

APIError == << "APIError" >>

\* lines 133-137 writing the expected header over a first row that lacks
\* columns, instead of extending that row
ReconcileHeader_Overwrites(b, current, fault) ==
    IF current = <<>> \/ missing(current) # <<>>
    THEN IF fault = "write_header" THEN Raised(Called(b, "update"), APIError)
         ELSE Returned([Called(b, "update") EXCEPT
                            !.sheet = update_row1(@, EXPECTED_HEADER)],
                       EXPECTED_HEADER)
    ELSE Returned(b, current)

\* lines 128-139: the sheet has rows; b has the calls made so far
ReconcileHeader(b, current, fault) ==
    IF current = <<>>
    THEN IF fault = "write_header" THEN Raised(Called(b, "update"), APIError)
         ELSE Returned([Called(b, "update") EXCEPT
                            !.sheet = update_row1(@, EXPECTED_HEADER)],
                       EXPECTED_HEADER)
    ELSE IF missing(current) # <<>>
    THEN IF fault = "write_header" THEN Raised(Called(b, "update"), APIError)
         ELSE Returned([Called(b, "update") EXCEPT
                            !.sheet = update_row1(@, current \o missing(current))],
                       current \o missing(current))
    ELSE Returned(b, current)

ensure_header(b, fault) ==
    IF fault = "get_all_values"
    THEN Raised(Called(b, "get_all_values"), APIError)
    ELSE IF Len(get_all_values(b.sheet)) = 0
    THEN IF fault = "write_header"
         THEN Raised([b EXCEPT !.calls = @ \o <<"get_all_values", "append_row">>],
                     APIError)
         ELSE Returned([b EXCEPT !.calls = @ \o <<"get_all_values", "append_row">>,
                                 !.sheet = append_row(@, EXPECTED_HEADER)],
                       EXPECTED_HEADER)
    ELSE ReconcileHeader([b EXCEPT !.calls = @ \o <<"get_all_values", "row_values">>],
                         row_values(b.sheet, 1), fault)

\* sh.worksheet(WORKSHEET_NAME), and add_worksheet when it is not found
OpenWorksheet(b) ==
    IF b.ws_exists THEN Returned(Called(b, "worksheet"), WORKSHEET_NAME)
    ELSE Returned([b EXCEPT !.calls = @ \o <<"worksheet", "add_worksheet">>,
                            !.ws_exists = TRUE, !.sheet = <<>>],
                  WORKSHEET_NAME)

\* get_worksheet taking the client before it looks at SHEET_ID (line 113
\* before lines 111-112)
get_worksheet_ClientFirst(b, fault) ==
    IF ~b.gc_cached /\ secrets.SA_INFO = None
    THEN Raised(b, << "RuntimeError", "GOOGLE_SERVICE_ACCOUNT" >>)
    ELSE IF secrets.SHEET_ID = ""
    THEN Raised([b EXCEPT !.gc_cached = TRUE], << "RuntimeError", "SHEET_ID" >>)
    ELSE IF fault = "open_by_key"
    THEN Raised(Called([b EXCEPT !.gc_cached = TRUE], "open_by_key"), APIError)
    ELSE OpenWorksheet(Called([b EXCEPT !.gc_cached = TRUE], "open_by_key"))

get_worksheet(b, fault) ==
    IF secrets.SHEET_ID = ""
    THEN Raised(b, << "RuntimeError", "SHEET_ID" >>)
    ELSE IF ~b.gc_cached /\ secrets.SA_INFO = None
    THEN Raised(b, << "RuntimeError", "GOOGLE_SERVICE_ACCOUNT" >>)
    ELSE IF fault = "open_by_key"
    THEN Raised(Called([b EXCEPT !.gc_cached = TRUE], "open_by_key"), APIError)
    ELSE OpenWorksheet(Called([b EXCEPT !.gc_cached = TRUE], "open_by_key"))

\* record.get(h, "")
RecordGet(record, h) == IF h \in DOMAIN record THEN record[h] ELSE ""

\* line 150 with record[h] in the place of record.get(h, ""): a header column
\* that is no field of the record raises
AppendRow_Subscript(b, header, record, fault) ==
    IF \E i \in 1..Len(header) : header[i] \notin DOMAIN record
    THEN Raised(b, << "KeyError" >>)
    ELSE IF fault = "append_row" THEN Raised(Called(b, "append_row"), APIError)
    ELSE Returned([Called(b, "append_row") EXCEPT
                       !.sheet = append_row(@, [i \in 1..Len(header) |-> record[header[i]]])],
                  [spreadsheet_title |-> secrets.SHEET_ID,
                   worksheet_title |-> WORKSHEET_NAME,
                   updated_range |-> Len(b.sheet) + 1])

\* lines 150-163: the row in the order of the header, and its append
AppendRow(b, header, record, fault) ==
    IF fault = "append_row" THEN Raised(Called(b, "append_row"), APIError)
    ELSE Returned([Called(b, "append_row") EXCEPT
                       !.sheet = append_row(@, [i \in 1..Len(header) |->
                                                   RecordGet(record, header[i])])],
                  [spreadsheet_title |-> secrets.SHEET_ID,
                   worksheet_title |-> WORKSHEET_NAME,
                   updated_range |-> Len(b.sheet) + 1])

\* line 148 on: eh is what ensure_header gave
WithHeader(eh, record, fault) ==
    IF eh.raised THEN eh
    ELSE AppendRow([eh.b EXCEPT !.header = eh.value], eh.value, record, fault)

\* line 147 on: ws is what get_worksheet gave
WithWorksheet(ws, record, fault) ==
    IF ws.raised THEN ws
    ELSE WithHeader(ensure_header(ws.b, fault), record, fault)

\* a script run that does not send makes no backend call
NoSend(b) == [b EXCEPT !.calls = <<>>, !.header = None, !.error = None]

\* the exception, if any, goes into the trace
Traced(r) == [r EXCEPT !.b.error = r.error]

append_record_to_sheet(b, record, fault) ==
    Traced(WithWorksheet(get_worksheet([b EXCEPT !.calls = <<>>, !.header = None,
                                                 !.error = None, !.record = record],
                                       fault),
                         record, fault))

---------------------------------------------------------------------------
(* Session state and the handlers *)

EmptyResponses == [id \in {} |-> 0]

\* lines 205-230, and what reset_all writes
InitialSession ==
    [ step |-> 1, authed |-> FALSE,
      patient |-> [name |-> <<>>, dob |-> <<>>],
      responses |-> EmptyResponses,
      created_at |-> <<>>, submission_id |-> <<>>,
      sent |-> FALSE, send_info |-> None, send_error |-> None ]

\* reset_all without line 239: the submission_id survives the reset
reset_all_KeepsSubmission(ss) ==
    [ ss EXCEPT !.step = 1, !.authed = FALSE,
                !.patient = [name |-> <<>>, dob |-> <<>>],
                !.responses = EmptyResponses,
                !.created_at = <<>>,
                !.sent = FALSE, !.send_info = None, !.send_error = None ]

\* reset_all without line 241: the send_info of the last send survives
reset_all_KeepsSendInfo(ss) ==
    [ ss EXCEPT !.step = 1, !.authed = FALSE,
                !.patient = [name |-> <<>>, dob |-> <<>>],
                !.responses = EmptyResponses,
                !.created_at = <<>>, !.submission_id = <<>>,
                !.sent = FALSE, !.send_error = None ]

reset_all(ss) ==
    [ ss EXCEPT !.step = 1, !.authed = FALSE,
                !.patient = [name |-> <<>>, dob |-> <<>>],
                !.responses = EmptyResponses,
                !.created_at = <<>>, !.submission_id = <<>>,
                !.sent = FALSE, !.send_info = None, !.send_error = None ]

\* responses.get(id, 0)
ResponseGet(responses, id) == IF id \in DOMAIN responses THEN responses[id] ELSE 0

build_record(ss) ==
    [ h \in { EXPECTED_HEADER[i] : i \in 1..Len(EXPECTED_HEADER) } |->
        CASE h = "created_at"    -> ss.created_at
          [] h = "submission_id" -> ss.submission_id
          [] h = "name"          -> ss.patient.name
          [] h = "dob"           -> ss.patient.dob
          [] h = "patient_hash"  -> make_patient_hash(ss.patient.name, ss.patient.dob)
          [] h = "total_score"   -> compute_total(ss.responses)
          [] OTHER               -> ResponseGet(ss.responses, h) ]

\* the outcome of a handler part that may raise: the session and the backend
\* it leaves, and the exception if one escaped it
Outcome(ss, b, raised, error) == [ss |-> ss, b |-> b, raised |-> raised, error |-> error]

\* try_send catching the exception of the append itself and going on to set
\* the sent flag
Sent_SwallowsError(ss, a) ==
    Outcome([ss EXCEPT !.sent = TRUE, !.send_info = a.value, !.send_error = None],
            a.b, FALSE, None)

\* lines 196-199: a is what append_record_to_sheet gave
Sent(ss, a) ==
    IF a.raised THEN Outcome(ss, a.b, TRUE, a.error)
    ELSE Outcome([ss EXCEPT !.sent = TRUE, !.send_info = a.value, !.send_error = None],
                 a.b, FALSE, None)

\* try_send without its first two lines: it sends whatever the sent flag says
try_send_NoGuard(ss, b, fault) ==
    Sent(ss, append_record_to_sheet(b, build_record(ss), fault))

try_send(ss, b, fault) ==
    IF ss.sent THEN Outcome(ss, NoSend(b), FALSE, None)
    ELSE Sent(ss, append_record_to_sheet(b, build_record(ss), fault))

\* the guards without lines 306-309: page 2 is drawn for anyone
Rerun_NoAuthGuard(ss) ==
    IF ss.step = 3 /\ ~ss.sent THEN [ss EXCEPT !.step = 2] ELSE ss

\* the step guards the next script run applies (lines 306-309 and 388-391),
\* each followed by its own st.rerun()
RECURSIVE Rerun(_)
Rerun(ss) ==
    IF ss.step = 2 /\ ~ss.authed THEN Rerun([ss EXCEPT !.step = 1])
    ELSE IF ss.step = 3 /\ ~ss.sent THEN Rerun([ss EXCEPT !.step = 2])
    ELSE ss

\* the handler storing the name as soon as it is known to be non-blank, before
\* the date is looked at (line 294 before line 290)
S1CompleteHandler_StoresNameFirst(ss, pw, name, dob) ==
    IF secrets.APP_PASSWORD = "" THEN ss
    ELSE IF pw # secrets.APP_PASSWORD THEN ss
    ELSE IF Strip(name) = <<>> THEN ss
    ELSE IF dob = None THEN [ss EXCEPT !.patient.name = Strip(name)]
    ELSE Rerun([ss EXCEPT !.authed = TRUE,
                          !.patient = [name |-> Strip(name), dob |-> DateIsoFormat(dob)],
                          !.step = 2])

\* lines 283-297
S1CompleteHandler(ss, pw, name, dob) ==
    IF secrets.APP_PASSWORD = "" THEN ss
    ELSE IF pw # secrets.APP_PASSWORD THEN ss
    ELSE IF Strip(name) = <<>> THEN ss
    ELSE IF dob = None THEN ss
    ELSE Rerun([ss EXCEPT !.authed = TRUE,
                          !.patient = [name |-> Strip(name), dob |-> DateIsoFormat(dob)],
                          !.step = 2])

\* the handler without line 346: the sent flag of an earlier send stays
S2Stored_KeepsSent(ss, new_responses, created_at) ==
    [ss EXCEPT !.responses = new_responses,
               !.created_at = created_at,
               !.submission_id =
                   make_submission_id(make_patient_hash(ss.patient.name, ss.patient.dob),
                                      created_at, new_responses),
               !.send_info = None, !.send_error = None]

\* lines 338-348: what the handler stores before it sends
S2Stored(ss, new_responses, created_at) ==
    [ss EXCEPT !.responses = new_responses,
               !.created_at = created_at,
               !.submission_id =
                   make_submission_id(make_patient_hash(ss.patient.name, ss.patient.dob),
                                      created_at, new_responses),
               !.sent = FALSE, !.send_info = None, !.send_error = None]

\* lines 351-360: r is what try_send gave
S2Sent(r) ==
    IF ~r.raised
    THEN Outcome(Rerun([r.ss EXCEPT !.step = 3]), r.b, FALSE, None)
    ELSE Outcome([r.ss EXCEPT !.sent = FALSE, !.send_info = None, !.send_error = r.error],
                 r.b, FALSE, None)

\* lines 337-360
S2CompleteHandler(ss, b, new_responses, t, fault) ==
    S2Sent(try_send(S2Stored(ss, new_responses, TimeIsoFormat(t)), b, fault))

\* the retry's except branch without line 377: the exception is dropped
RetrySent_ErrorLost(r) ==
    IF ~r.raised
    THEN Outcome(Rerun([r.ss EXCEPT !.step = 3]), r.b, FALSE, None)
    ELSE Outcome(r.ss, r.b, FALSE, None)

\* lines 373-379: r is what try_send gave
RetrySent(r) ==
    IF ~r.raised
    THEN Outcome(Rerun([r.ss EXCEPT !.step = 3]), r.b, FALSE, None)
    ELSE Outcome([r.ss EXCEPT !.send_error = r.error], r.b, FALSE, None)

\* lines 367-379
RetryHandler(ss, b, fault) ==
    RetrySent(try_send([ss EXCEPT !.sent = FALSE, !.send_info = None,
                                  !.send_error = None],
                       b, fault))

\* going back that also drops the stored error of the failed send
BackToStep1Handler_ClearsError(ss) == Rerun([ss EXCEPT !.step = 1, !.send_error = None])

\* going back that also empties the identity to be edited
BackToStep1Handler_ClearsIdentity(ss) ==
    Rerun([ss EXCEPT !.step = 1, !.patient = [name |-> <<>>, dob |-> <<>>]])

\* lines 363-365
BackToStep1Handler(ss) == Rerun([ss EXCEPT !.step = 1])

\* going back to the survey that also takes the sent flag back
BackToStep2Handler_ClearsSent(ss) == Rerun([ss EXCEPT !.step = 2, !.sent = FALSE])

\* lines 417-419
BackToStep2Handler(ss) == Rerun([ss EXCEPT !.step = 2])

\* the retry button is rendered, so can be clicked, only then (line 367)
RetryOffered(ss) == ss.step = 2 /\ ss.send_error # None

---------------------------------------------------------------------------
(* The wizard of one session *)

\* worksheets the deployment may start on: none yet, the header of the
\* version without submission_id with one of its rows, and rows under a
\* blank first row
LegacyHeader ==
    << "created_at", "name", "dob", "patient_hash", "total_score" >> \o ITEMS

LegacySession ==
    [ InitialSession EXCEPT !.patient = [name |-> <<"o">>, dob |-> <<1960, 5, 6>>],
                            !.responses = ScenarioResponses,
                            !.created_at = TimeIsoFormat(0) ]

LegacyRow ==
    [ i \in 1..Len(LegacyHeader) |-> RecordGet(build_record(LegacySession), LegacyHeader[i]) ]

StartSheets ==
    { [ws_exists |-> FALSE, sheet |-> <<>>],
      [ws_exists |-> TRUE,  sheet |-> << LegacyHeader, LegacyRow >>],
      [ws_exists |-> TRUE,  sheet |-> << <<>>, LegacyRow >>] }

Init ==
    /\ secrets \in SecretsChoices
    /\ session_state = InitialSession
    /\ now = 0
    /\ \E w \in StartSheets :
          backend = [ws_exists |-> w.ws_exists, sheet |-> w.sheet,
                     gc_cached |-> FALSE, calls |-> <<>>, header |-> None,
                     error |-> None, record |-> None]
    /\ last = "none"
    /\ appends = <<>>

\* "전체 초기화" (lines 257-259), on every page
GlobalReset ==
    /\ session_state' = Rerun(reset_all(session_state))
    /\ last' = "reset"
    /\ backend' = NoSend(backend)
    /\ UNCHANGED <<secrets, now, appends>>

\* "완료 (설문으로 이동)" on page 1
S1Complete ==
    /\ session_state.step = 1
    /\ \E pw \in PwInputs, name \in NameInputs, dob \in DobInputs :
          session_state' = S1CompleteHandler(session_state, pw, name, dob)
    /\ last' = "s1_complete"
    /\ backend' = NoSend(backend)
    /\ UNCHANGED <<secrets, now, appends>>

\* "완료 (전송 후 결과 페이지로 이동)" on page 2
S2Complete ==
    /\ session_state.step = 2
    /\ Len(backend.sheet) < MaxSheetRows
    /\ \E new_responses \in ResponseInputs, t \in { c \in ClockReadings : c >= now }, fault \in Faults :
          \E r \in { S2CompleteHandler(session_state, backend, new_responses, t, fault) } :
             /\ session_state' = r.ss
             /\ backend' = r.b
             /\ now' = t
    /\ last' = "s2_complete"
    /\ UNCHANGED <<secrets, appends>>

\* "이전 (정보 수정)" on page 2
BackToStep1 ==
    /\ session_state.step = 2
    /\ session_state' = BackToStep1Handler(session_state)
    /\ last' = "back1"
    /\ backend' = NoSend(backend)
    /\ UNCHANGED <<secrets, now, appends>>

\* "전송 재시도" on page 2
Retry ==
    /\ RetryOffered(session_state)
    /\ Len(backend.sheet) < MaxSheetRows
    /\ \E fault \in Faults :
          \E r \in { RetryHandler(session_state, backend, fault) } :
             /\ session_state' = r.ss
             /\ backend' = r.b
    /\ last' = "retry"
    /\ UNCHANGED <<secrets, now, appends>>

\* "이전 (설문 수정)" on page 3
BackToStep2 ==
    /\ session_state.step = 3
    /\ session_state' = BackToStep2Handler(session_state)
    /\ last' = "back2"
    /\ backend' = NoSend(backend)
    /\ UNCHANGED <<secrets, now, appends>>

\* "새 설문 시작" on page 3
NewSurvey ==
    /\ session_state.step = 3
    /\ session_state' = Rerun(reset_all(session_state))
    /\ last' = "new_survey"
    /\ backend' = NoSend(backend)
    /\ UNCHANGED <<secrets, now, appends>>

Next ==
    \/ GlobalReset
    \/ S1Complete
    \/ S2Complete
    \/ BackToStep1
    \/ Retry
    \/ BackToStep2
    \/ NewSurvey

Spec == Init /\ [][Next]_vars

---------------------------------------------------------------------------
(* Properties of the wizard *)

Sends == { "s2_complete", "retry" }
Resets == { "reset", "new_survey" }

\* the column of a header cell, 0 when the header lacks it
ColumnOf(header, name) ==
    IF \E i \in 1..Len(header) : header[i] = name
    THEN CHOOSE i \in 1..Len(header) :
            header[i] = name /\ \A j \in 1..(i - 1) : header[j] # name
    ELSE 0

\* the cell of row r under the header cell name, empty when the row lacks it
CellUnder(sheet, r, name) ==
    LET c == ColumnOf(sheet[1], name)
    IN IF c = 0 \/ c > Len(sheet[r]) THEN <<>> ELSE sheet[r][c]

\* the rows this session appended: those below row 1 that no start sheet held
AppendedRows(sheet) == { r \in 2..Len(sheet) : sheet[r] # LegacyRow }

\* the row append_record_to_sheet makes of a record under a header
RowOf(record, header) == [i \in 1..Len(header) |-> RecordGet(record, header[i])]

\* the last script run appended the row of the record it was given
AppendedItsRecord ==
    /\ backend.error = None
    /\ backend.calls # <<>>
    /\ backend.calls[Len(backend.calls)] = "append_row"
    /\ backend.header # None
    /\ Len(backend.sheet) >= 2
    /\ backend.sheet[Len(backend.sheet)] = RowOf(backend.record, backend.header)

\* C1: within one session no two appended data rows carry the same
\* submission_id, whatever the sequence of wizard actions.
C1_SubmissionIdSentOnce ==
    \A r1, r2 \in AppendedRows(backend.sheet) :
        r1 < r2 =>
            CellUnder(backend.sheet, r1, "submission_id")
                # CellUnder(backend.sheet, r2, "submission_id")

\* C2: while sent is true no retry is offered and a call of try_send makes no
\* backend call and changes neither the sheet nor the session; a retry that
\* ran did call append_record_to_sheet, and appended its row unless that
\* raised.
C2_NoResendWhenSent ==
    /\ session_state.sent =>
          /\ ~RetryOffered(session_state)
          /\ \A fault \in Faults :
                LET r == try_send(session_state, backend, fault)
                IN /\ ~r.raised
                   /\ r.ss = session_state
                   /\ r.b.calls = <<>>
                   /\ r.b.sheet = backend.sheet
    /\ last = "retry" =>
          /\ backend.record # None
          /\ backend.error = None => (session_state.sent /\ AppendedItsRecord)
          /\ backend.error # None => ~session_state.sent

\* a retry succeeded, so sent is true and the sheet holds its row
C2_Witness ==
    /\ last = "retry"
    /\ session_state.sent
    /\ AppendedItsRecord

\* C3: when the append of an S2 complete or of a retry raises, the session
\* stays in step 2 with sent false and send_info empty, the exception is
\* stored as a non-empty send_error, and no handler lets an exception escape.
C3_FailedSendStaysInStep2 ==
    /\ (last \in Sends /\ backend.error # None) =>
          /\ session_state.step = 2
          /\ ~session_state.sent
          /\ session_state.send_info = None
          /\ session_state.send_error = backend.error
          /\ session_state.send_error # None
    /\ session_state.step = 2 =>
          \A fault \in Faults :
             /\ \A new_responses \in ResponseInputs :
                   ~S2CompleteHandler(session_state, backend, new_responses, now, fault).raised
             /\ ~RetryHandler(session_state, backend, fault).raised

\* a retry failed at the row append, after the header was reconciled
C3_Witness ==
    /\ last = "retry"
    /\ backend.error = APIError
    /\ backend.header # None
    /\ session_state.step = 2

\* C4: step 3 implies sent, and step 3 is only the result of an S2 complete or
\* a retry whose append succeeded in that very run; a session with step 3 and
\* sent false is sent back before the result page.
C4_Step3OnlyAfterSend ==
    /\ session_state.step = 3 =>
          /\ session_state.sent
          /\ last \in Sends
          /\ AppendedItsRecord
          /\ backend.record = build_record(session_state)
    /\ Rerun([session_state EXCEPT !.step = 3, !.sent = FALSE]).step # 3

C4_Witness ==
    /\ session_state.step = 3
    /\ last = "s2_complete"

\* C5: step 2 or 3 implies authed; authed is set only with a configured
\* password and a stored identity; a session that is not authed is the
\* initial one (only the reset clears authed, and it leaves step 1); a session
\* with step 2 and authed false is sent back to step 1.
C5_StepsNeedAuth ==
    /\ session_state.step \in {2, 3} => session_state.authed
    /\ session_state.authed =>
          /\ secrets.APP_PASSWORD # ""
          /\ session_state.patient.name # <<>>
          /\ session_state.patient.dob # <<>>
    /\ ~session_state.authed => session_state = InitialSession
    /\ Rerun([session_state EXCEPT !.step = 2, !.authed = FALSE]).step = 1

\* an S1 complete has just entered step 2
C5_Witness ==
    /\ session_state.step = 2
    /\ last = "s1_complete"
    /\ session_state.authed

\* C6: the reset can be clicked in every state, from every state it yields
\* the initial session, and its run makes no backend call.
C6_ResetYieldsInitial ==
    /\ ENABLED GlobalReset
    /\ Rerun(reset_all(session_state)) = InitialSession
    /\ last \in Resets =>
          /\ session_state = InitialSession
          /\ backend.calls = <<>>

\* a reset after this session appended a row, which the sheet still holds
C6_Witness ==
    /\ last = "reset"
    /\ session_state = InitialSession
    /\ AppendedRows(backend.sheet) # {}

\* C7: every retry sends the record of the failed attempt before it: the same
\* submission_id, created_at, name, dob, patient_hash, total_score and item
\* scores.
C7_RetrySendsFailedRecord ==
    [][last' = "retry" => backend'.record = backend.record]_vars

\* C8: once an S2 complete has occurred (created_at is set), the stored
\* name and date of birth do not change until a reset.
C8_IdentityImmutable ==
    [][(session_state.created_at # <<>> /\ last' \notin Resets)
          => session_state'.patient = session_state.patient]_vars

\* C8 as amended: the stored name and date of birth change only in an S1
\* complete or a reset; S2 complete, retry and both back actions leave them.
C8_IdentityChangesOnlyInS1 ==
    [][session_state'.patient # session_state.patient
          => last' \in Resets \cup {"s1_complete"}]_vars

\* an S1 complete stored another name than the one the submission_id was
\* derived from
C8_Witness ==
    /\ last = "s1_complete"
    /\ session_state.submission_id # <<>>
    /\ session_state.submission_id[2][2] # session_state.patient.name

\* the exception get_worksheet raises at line 112
SheetIdError == << "RuntimeError", "SHEET_ID" >>

\* C11: with an empty SHEET_ID every send (S2 complete or retry) raises the
\* configuration error before any backend operation: the run makes no
\* backend call, no client is created, the worksheet is as the deployment
\* found it, the error is stored, and the session never reaches step 3.
C11_EmptySheetIdFailsFirst ==
    secrets.SHEET_ID = "" =>
        /\ backend.calls = <<>>
        /\ ~backend.gc_cached
        /\ backend.header = None
        /\ \E w \in StartSheets :
              backend.ws_exists = w.ws_exists /\ backend.sheet = w.sheet
        /\ session_state.step # 3
        /\ ~session_state.sent
        /\ last \in Sends =>
              /\ backend.record # None
              /\ backend.error = SheetIdError
              /\ session_state.send_error = SheetIdError

\* a retry ran with an empty SHEET_ID and failed like the S2 complete before
C11_Witness ==
    /\ secrets.SHEET_ID = ""
    /\ last = "retry"
    /\ backend.record # None
    /\ session_state.send_error = SheetIdError

\* t is s without the blanks at its two ends
IsTrimOf(t, s) ==
    /\ t # <<>>
    /\ t[1] # " " /\ t[Len(t)] # " "
    /\ \E i \in 1..Len(s) :
          /\ i + Len(t) - 1 <= Len(s)
          /\ SubSeq(s, i, i + Len(t) - 1) = t
          /\ \A j \in 1..Len(s) : (j < i \/ j > i + Len(t) - 1) => s[j] = " "

\* C12: on page 1, whatever authed is, the S1 complete action goes to step 2
\* only for a configured, matching password, a name that is not blank and a
\* selected date, and then it sets authed, stores the trimmed name and the
\* date and changes nothing else; for every other input it leaves the whole
\* session state as it was.
C12_S1CompleteAllOrNothing ==
    /\ session_state.step = 1 =>
          \A pw \in PwInputs, name \in NameInputs, dob \in DobInputs :
             LET after == S1CompleteHandler(session_state, pw, name, dob)
             IN IF /\ secrets.APP_PASSWORD # ""
                   /\ pw = secrets.APP_PASSWORD
                   /\ \E i \in 1..Len(name) : name[i] # " "
                   /\ dob # None
                THEN /\ after.step = 2
                     /\ after.authed
                     /\ IsTrimOf(after.patient.name, name)
                     /\ after.patient.dob = << dob.year, dob.month, dob.day >>
                     /\ [after EXCEPT !.step = 1, !.authed = session_state.authed,
                                      !.patient = session_state.patient]
                           = session_state
                ELSE after = session_state
    /\ (last = "s1_complete" /\ session_state.step = 2) =>
          /\ session_state.authed
          /\ secrets.APP_PASSWORD # ""
          /\ session_state.patient.name # <<>>
          /\ session_state.patient.dob # <<>>

\* an S1 complete was refused on page 1 entered again from step 2: the
\* session still is authed and holds the identity and the failed send
C12_Witness ==
    /\ last = "s1_complete"
    /\ session_state.step = 1
    /\ session_state.authed
    /\ session_state.patient.name # <<>>
    /\ session_state.send_error # None

\* C15: from the result page on (sent is true), the back action to step 2
\* changes only step, and until an S2 complete or a reset no action changes
\* sent, submission_id, created_at, responses, patient, send_info or
\* send_error.
C15_ReEditKeepsSubmission ==
    [][(session_state.sent /\ last' \notin Resets \cup {"s2_complete"}) =>
          [session_state' EXCEPT !.step = session_state.step] = session_state]_vars

\* C15 as amended: from the result page on, the back action to step 2 changes
\* only step, and until an S2 complete or a reset no action changes sent,
\* submission_id, created_at, responses, send_info or send_error; the
\* patient is changed by an S1 complete on page 1, and by nothing else.
C15_ReEditKeepsAllButIdentity ==
    [][(session_state.sent /\ last' \notin Resets \cup {"s2_complete"}) =>
          /\ [session_state' EXCEPT !.step = session_state.step,
                                    !.patient = session_state.patient]
                = session_state
          /\ last' # "s1_complete" => session_state'.patient = session_state.patient
          /\ last' = "back2" => (session_state.step = 3 /\ session_state'.step = 2)]_vars

\* back in step 2 after the result page and page 1, with the sent flag and
\* the submission_id of the send, and another name than the one sent
C15_Witness ==
    /\ session_state.step = 2
    /\ session_state.sent
    /\ session_state.send_info # None
    /\ last = "s1_complete"
    /\ session_state.submission_id[2][2] # session_state.patient.name

\* the deployment has the secrets an append needs
AppendConfigured == secrets.SHEET_ID # "" /\ secrets.SA_INFO # None

\* the retry button is there to be clicked, and the backend has what it needs
\* to accept the append
RetryCanSucceed ==
    /\ AppendConfigured
    /\ RetryOffered(session_state)
    /\ Len(backend.sheet) < MaxSheetRows

\* a retry that no backend call fails
RetryNoFault ==
    /\ last' = "retry"
    /\ RetryOffered(session_state)
    /\ Len(backend.sheet) < MaxSheetRows
    /\ \E r \in { RetryHandler(session_state, backend, "none") } :
          /\ session_state' = r.ss
          /\ backend' = r.b
    /\ UNCHANGED <<secrets, now, appends>>

\* the user keeps retrying and the backend in the end accepts: strong
\* fairness of RetryNoFault, written with the condition under which that
\* action is enabled
RetryFairness == []<>RetryCanSucceed => []<><<RetryNoFault>>_vars

SpecLive == Init /\ [][Next]_vars /\ RetryFairness

\* C17: a stored send_error survives the way to page 1 and back, so the retry
\* is offered at step 2 as long as it is set; a retry whose append returned
\* left step 3, sent true and send_error empty; and a session whose retry is
\* offered in a deployment configured for appends does not stay that way
\* for ever: it reaches step 3, unless the user leaves page 2 or resets.
C17_RetryLeadsToStep3 ==
    /\ [][(session_state.send_error # None /\ last' \in {"back1", "s1_complete"})
             => /\ session_state'.send_error = session_state.send_error
                /\ session_state'.step = 2 => RetryOffered(session_state')]_vars
    /\ []((last = "retry" /\ backend.error = None) =>
             /\ session_state.step = 3
             /\ session_state.sent
             /\ session_state.send_error = None)
    /\ (RetryCanSucceed ~> (session_state.step = 3 \/ ~RetryOffered(session_state)))

\* a retry reached step 3 after the user had been on page 1 and back with the
\* failed send (the name was edited there)
C17_Witness ==
    /\ last = "retry"
    /\ session_state.step = 3
    /\ session_state.sent
    /\ session_state.send_error = None
    /\ session_state.submission_id[2][2] # session_state.patient.name

\* the item scores of row r, as a response set
RowResponses(sheet, r) == [id \in ItemIds |-> CellUnder(sheet, r, id)]

\* C18: every row this session appended holds the patient_hash of its own
\* name and dob, and the submission_id derived from its own patient_hash,
\* created_at and item scores, whether an S2 complete or a retry sent it.
C18_RowsSelfConsistent ==
    \A r \in AppendedRows(backend.sheet) :
        /\ CellUnder(backend.sheet, r, "patient_hash")
              = make_patient_hash(CellUnder(backend.sheet, r, "name"),
                                  CellUnder(backend.sheet, r, "dob"))
        /\ CellUnder(backend.sheet, r, "submission_id")
              = make_submission_id(CellUnder(backend.sheet, r, "patient_hash"),
                                   CellUnder(backend.sheet, r, "created_at"),
                                   RowResponses(backend.sheet, r))

\* C19: between user actions the send flags agree: a stored send_error
\* implies sent is false, send_info is set exactly when sent is true, and
\* sent implies a submission_id and a created_at that are not empty.
C19_SendFlagsAgree ==
    /\ session_state.send_error # None => ~session_state.sent
    /\ (session_state.send_info # None) <=> session_state.sent
    /\ session_state.sent =>
          /\ session_state.submission_id # <<>>
          /\ session_state.created_at # <<>>

\* an S2 complete failed after an earlier send of this session had succeeded:
\* the flags of that send are gone
C19_Witness ==
    /\ last = "s2_complete"
    /\ session_state.send_error # None
    /\ ~session_state.sent
    /\ session_state.send_info = None
    /\ AppendedRows(backend.sheet) # {}

\* C20: whenever page 3 shows its result, the record it rebuilds from the
\* session state is, field by field, what the last row of the sheet, the
\* last this session appended, holds under the header.
C20_ResultIsWhatWasWritten ==
    session_state.step = 3 =>
        /\ Len(backend.sheet) >= 2
        /\ Len(backend.sheet) \in AppendedRows(backend.sheet)
        /\ \A i \in 1..Len(EXPECTED_HEADER) :
              CellUnder(backend.sheet, Len(backend.sheet), EXPECTED_HEADER[i])
                 = build_record(session_state)[EXPECTED_HEADER[i]]

\* page 3 after the second send of this session, with another selection
\* than the first
C20_Witness ==
    /\ session_state.step = 3
    /\ Cardinality(AppendedRows(backend.sheet)) >= 2
    /\ CellUnder(backend.sheet, Len(backend.sheet), "total_score")
          # CellUnder(backend.sheet, Len(backend.sheet) - 1, "total_score")

---------------------------------------------------------------------------
(* Header reconciliation on its own: ensure_header run on a worksheet, and *)
(* run once more on what it left.                                          *)

\* the cells a first row may hold: the expected columns, a column of
\* another origin, a blank cell
HeaderCells == { EXPECTED_HEADER[i] : i \in 1..Len(EXPECTED_HEADER) } \cup { "note", "" }

Reverse(s) == [i \in 1..Len(s) |-> s[Len(s) + 1 - i]]

\* first rows: every short one (a row never ends in a blank cell), and long
\* ones: complete, complete in another order, complete with a foreign column
\* after or before, and the one of the version without submission_id
StartHeaders ==
    { h \in UNION { [1..n -> HeaderCells] : n \in 0..MaxHdrLen } :
         h = <<>> \/ h[Len(h)] # "" }
    \cup { EXPECTED_HEADER, Reverse(EXPECTED_HEADER), EXPECTED_HEADER \o <<"note">>,
           <<"note">> \o EXPECTED_HEADER, LegacyHeader }

\* an empty worksheet, a first row alone, a first row (or a blank one) with
\* a data row below it
HeaderStartSheets ==
    { <<>> }
    \cup { << h >> : h \in StartHeaders \ { <<>> } }
    \cup { << h, LegacyRow >> : h \in StartHeaders }

InitHeader ==
    /\ secrets = [APP_PASSWORD |-> "pw", SHEET_ID |-> "sheet", SA_INFO |-> <<"sa">>]
    /\ session_state = InitialSession
    /\ now = 0
    /\ last = "none"
    /\ appends = <<>>
    /\ \E sheet \in HeaderStartSheets :
          backend = [ws_exists |-> TRUE, sheet |-> sheet, gc_cached |-> TRUE,
                     calls |-> <<>>, header |-> None, error |-> None,
                     record |-> None]

\* one call of ensure_header(ws) that returns
Reconciled(b) ==
    LET r == ensure_header([b EXCEPT !.calls = <<>>], "none")
    IN [r.b EXCEPT !.header = r.value]

FirstReconcile ==
    /\ last = "none"
    /\ backend' = Reconciled(backend)
    /\ last' = "ensure_header"
    /\ UNCHANGED <<secrets, session_state, now, appends>>

SecondReconcile ==
    /\ last = "ensure_header"
    /\ backend' = Reconciled(backend)
    /\ last' = "ensure_header again"
    /\ UNCHANGED <<secrets, session_state, now, appends>>

NextHeader == FirstReconcile \/ SecondReconcile

SpecHeader == InitHeader /\ [][NextHeader]_vars

\* the expected columns a first row lacks, in expected order
Lacking(current) ==
    LET Absent(h) == \A j \in 1..Len(current) : current[j] # h
    IN SelectSeq(EXPECTED_HEADER, Absent)

HeaderWrites == { "update", "append_row" }

\* C9: on a sheet whose first row is not blank, reconciliation leaves a first
\* row that starts with the whole current first row and continues with
\* exactly the expected columns that were missing, in expected order; it
\* returns that row, leaves every other row alone, and writes nothing when
\* no expected column is missing.
C9_HeaderOnlyGrows ==
    [][ (Len(backend.sheet) > 0 /\ row_values(backend.sheet, 1) # <<>>) =>
          LET current == row_values(backend.sheet, 1)
              after == backend'.sheet[1]
          IN /\ Len(backend'.sheet) = Len(backend.sheet)
             /\ Len(after) = Len(current) + Len(Lacking(current))
             /\ SubSeq(after, 1, Len(current)) = current
             /\ SubSeq(after, Len(current) + 1, Len(after)) = Lacking(current)
             /\ backend'.header = after
             /\ \A r \in 2..Len(backend.sheet) : backend'.sheet[r] = backend.sheet[r]
             /\ Lacking(current) = <<>> =>
                   /\ backend'.sheet = backend.sheet
                   /\ \A i \in 1..Len(backend'.calls) :
                         backend'.calls[i] \notin HeaderWrites
    ]_vars

\* a first row that began with a foreign column was extended by a write
C9_Witness ==
    /\ last = "ensure_header"
    /\ \E i \in 1..Len(backend.calls) : backend.calls[i] = "update"
    /\ backend.sheet[1][1] = "note"
    /\ Len(backend.sheet[1]) > Len(EXPECTED_HEADER)

\* C10: a second run of ensure_header, on what the first run left, leaves the
\* sheet (first row and number of rows) as the first run left it and returns
\* the header the first run returned.
C10_HeaderIdempotent ==
    [][ last' = "ensure_header again" =>
          /\ backend'.sheet = backend.sheet
          /\ backend'.header = backend.header
          /\ \A i \in 1..Len(backend'.calls) : backend'.calls[i] \notin HeaderWrites
    ]_vars

\* the second run has run on a first row that the first run had to extend
C10_Witness ==
    /\ last = "ensure_header again"
    /\ backend.header[1] = "name"
    /\ Len(backend.header) = Len(EXPECTED_HEADER)

---------------------------------------------------------------------------
(* The append on its own: append_record_to_sheet called once with a record *)
(* on each of the worksheets of the header specification.                  *)

\* the record of a completed survey (try_send, line 195)
SentRecord(new_responses) ==
    build_record(S2Stored([InitialSession EXCEPT
                               !.step = 2, !.authed = TRUE,
                               !.patient = [name |-> <<"k">>, dob |-> <<1970, 1, 2>>]],
                          new_responses, TimeIsoFormat(0)))

AppendToSheet ==
    /\ last = "none"
    /\ \E new_responses \in ResponseInputs, fault \in Faults :
          \E r \in { append_record_to_sheet(backend, SentRecord(new_responses), fault) } :
             backend' = r.b
    /\ last' = "append_record_to_sheet"
    /\ UNCHANGED <<secrets, session_state, now, appends>>

NextAppend == AppendToSheet

SpecAppend == InitHeader /\ [][NextAppend]_vars

\* the names of the fields of a record
RecordFields ==
    { "created_at", "submission_id", "name", "dob", "patient_hash", "total_score",
      "mgadl_01_talking", "mgadl_02_chewing", "mgadl_03_swallowing",
      "mgadl_04_breathing", "mgadl_05_brush_teeth_hair",
      "mgadl_06_arise_from_chair", "mgadl_07_diplopia", "mgadl_08_ptosis" }

\* C16: an append that returned added one row, as long as the header that
\* reconciliation returned, which is the first row of the sheet; cell i holds
\* the record's value for column header[i] and the empty string where
\* header[i] is no field of the record; every field of the record is a
\* column of the header and its value is in the row.  A foreign column never
\* makes the append raise.
C16_RowAlignedToHeader ==
    last = "append_record_to_sheet" =>
        /\ DOMAIN backend.record = RecordFields
        /\ backend.error # None => backend.error = APIError
        /\ backend.error = None =>
              LET header == backend.header
                  row == backend.sheet[Len(backend.sheet)]
              IN /\ Len(backend.sheet) >= 2
                 /\ header = row_values(backend.sheet, 1)
                 /\ Len(row) = Len(header)
                 /\ \A i \in 1..Len(header) :
                       IF header[i] \in RecordFields
                       THEN row[i] = backend.record[header[i]]
                       ELSE row[i] = ""
                 /\ \A f \in RecordFields :
                       \E i \in 1..Len(header) :
                           header[i] = f /\ row[i] = backend.record[f]

\* a row appended under a first row that began with a foreign column and
\* lacked expected ones
C16_Witness ==
    /\ last = "append_record_to_sheet"
    /\ backend.error = None
    /\ backend.header[1] = "note"
    /\ \E i \in 1..Len(backend.calls) : backend.calls[i] = "update"
    /\ backend.sheet[Len(backend.sheet)][1] = ""
    /\ backend.sheet[Len(backend.sheet)][Len(backend.header)] = 1

---------------------------------------------------------------------------
(* The survey on its own: one questionnaire of an identified patient, over *)
(* every selection the eight radios allow, sent once and retried when the  *)
(* send failed.                                                            *)

\* what the survey form can yield (lines 318-333): one of the choice keys for
\* every item
AllResponses == [ItemIds -> Choices]

InitSurvey ==
    /\ secrets = [APP_PASSWORD |-> "pw", SHEET_ID |-> "sheet", SA_INFO |-> <<"sa">>]
    /\ session_state = InitialSession
    /\ now = 0
    /\ backend = [ws_exists |-> FALSE, sheet |-> <<>>, gc_cached |-> FALSE,
                  calls |-> <<>>, header |-> None, error |-> None, record |-> None]
    /\ last = "none"
    /\ appends = <<>>

\* "완료 (전송 후 결과 페이지로 이동)" with any selection, the first time page 2
\* is shown; the append of the row succeeds or raises
SurveyComplete ==
    /\ session_state.step = 2
    /\ last = "s1_complete"
    /\ \E new_responses \in AllResponses, fault \in { "none", "append_row" } :
          \E r \in { S2CompleteHandler(session_state, backend, new_responses, now, fault) } :
             /\ session_state' = r.ss
             /\ backend' = r.b
    /\ last' = "s2_complete"
    /\ UNCHANGED <<secrets, now, appends>>

\* "전송 재시도" after the failed send, accepted by the backend
SurveyRetry ==
    /\ RetryOffered(session_state)
    /\ last = "s2_complete"
    /\ \E r \in { RetryHandler(session_state, backend, "none") } :
          /\ session_state' = r.ss
          /\ backend' = r.b
    /\ last' = "retry"
    /\ UNCHANGED <<secrets, now, appends>>

NextSurvey ==
    \/ S1Complete
    \/ SurveyComplete
    \/ SurveyRetry

SpecSurvey == InitSurvey /\ [][NextSurvey]_vars

\* the eight item fields of a record added up
ItemScoreSum(record) ==
    record["mgadl_01_talking"] + record["mgadl_02_chewing"]
    + record["mgadl_03_swallowing"] + record["mgadl_04_breathing"]
    + record["mgadl_05_brush_teeth_hair"] + record["mgadl_06_arise_from_chair"]
    + record["mgadl_07_diplopia"] + record["mgadl_08_ptosis"]

ScoresAddUp(record) ==
    /\ \A i \in 1..Len(ITEMS) : record[ITEMS[i]] \in 0..3
    /\ record["total_score"] = ItemScoreSum(record)
    /\ record["total_score"] \in 0..24

\* C13: the record handed to append_record_to_sheet by a send, and the record
\* page 3 rebuilds for its result, have item scores in 0..3 and a total_score
\* in 0..24 that is the sum of the eight item scores of that very record.
C13_TotalIsSumOfItems ==
    /\ backend.record # None => ScoresAddUp(backend.record)
    /\ session_state.step = 3 => ScoresAddUp(build_record(session_state))

\* page 3 shows the highest total, sent by a retry
C13_Witness ==
    /\ session_state.step = 3
    /\ last = "retry"
    /\ build_record(session_state)["total_score"] = 24
    /\ backend.record["total_score"] = 24

---------------------------------------------------------------------------
(* Two sessions appending at the same time.  Each script run is a thread   *)
(* of its own and every worksheet method is one request to the backend, so *)
(* the requests of two calls of append_record_to_sheet interleave; the     *)
(* backend serves one request at a time.  Both sessions hold the worksheet *)
(* (line 147) and are about to call ensure_header.                         *)

Sessions == { 1, 2 }

\* the identity each session entered on page 1
SessionPatient(s) ==
    IF s = 1 THEN [name |-> <<"k">>, dob |-> <<1970, 1, 2>>]
    ELSE [name |-> <<"l">>, dob |-> <<1970, 1, 2>>]

\* the record try_send builds at line 195 after S2 complete stored the
\* selection
SessionRecord(s, new_responses) ==
    build_record(S2Stored([InitialSession EXCEPT !.step = 2, !.authed = TRUE,
                                                 !.patient = SessionPatient(s)],
                          new_responses, TimeIsoFormat(0)))

\* an empty worksheet, the worksheets of the wizard, and one with the
\* expected header alone
ConcurrentStartSheets ==
    { <<>>, << LegacyHeader, LegacyRow >>, << <<>>, LegacyRow >>, << EXPECTED_HEADER >> }

InitConcurrent ==
    /\ secrets = [APP_PASSWORD |-> "pw", SHEET_ID |-> "sheet", SA_INFO |-> <<"sa">>]
    /\ session_state = InitialSession
    /\ now = 0
    /\ last = "none"
    /\ \E sheet \in ConcurrentStartSheets :
          backend = [ws_exists |-> TRUE, sheet |-> sheet, gc_cached |-> TRUE,
                     calls |-> <<>>, header |-> None, error |-> None,
                     record |-> None]
    /\ \E r1 \in ResponseInputs, r2 \in ResponseInputs :
          appends = [s \in Sessions |->
                       [record |-> SessionRecord(s, IF s = 1 THEN r1 ELSE r2),
                        line |-> 123, header |-> None]]

\* line 123, and the test of line 124
GetAllValues(s) ==
    /\ appends[s].line = 123
    /\ appends' = [appends EXCEPT ![s].line =
                      IF Len(get_all_values(backend.sheet)) = 0 THEN 125 ELSE 128]
    /\ backend' = Called(backend, "get_all_values")
    /\ UNCHANGED <<secrets, session_state, now, last>>

\* lines 125-126
AppendHeader(s) ==
    /\ appends[s].line = 125
    /\ backend' = [Called(backend, "append_row") EXCEPT
                      !.sheet = append_row(@, EXPECTED_HEADER)]
    /\ appends' = [appends EXCEPT ![s].line = 150, ![s].header = EXPECTED_HEADER]
    /\ UNCHANGED <<secrets, session_state, now, last>>

\* line 128, and the tests of lines 129, 133-135 and 139 on what it read
RowValues(s) ==
    /\ appends[s].line = 128
    /\ LET current == row_values(backend.sheet, 1)
       IN appends' =
             IF current = <<>>
             THEN [appends EXCEPT ![s].line = 130, ![s].header = EXPECTED_HEADER]
             ELSE IF missing(current) # <<>>
             THEN [appends EXCEPT ![s].line = 136,
                                  ![s].header = current \o missing(current)]
             ELSE [appends EXCEPT ![s].line = 150, ![s].header = current]
    /\ backend' = Called(backend, "row_values")
    /\ UNCHANGED <<secrets, session_state, now, last>>

\* lines 130-131 and 136-137
UpdateHeader(s) ==
    /\ appends[s].line \in { 130, 136 }
    /\ backend' = [Called(backend, "update") EXCEPT
                      !.sheet = update_row1(@, appends[s].header)]
    /\ appends' = [appends EXCEPT ![s].line = 150]
    /\ UNCHANGED <<secrets, session_state, now, last>>

\* lines 150-153
AppendRecord(s) ==
    /\ appends[s].line = 150
    /\ backend' = [Called(backend, "append_row") EXCEPT
                      !.sheet = append_row(@,
                          [i \in 1..Len(appends[s].header) |->
                              RecordGet(appends[s].record, appends[s].header[i])])]
    /\ appends' = [appends EXCEPT ![s].line = 159]
    /\ UNCHANGED <<secrets, session_state, now, last>>

NextConcurrent ==
    \E s \in Sessions :
        \/ GetAllValues(s)
        \/ AppendHeader(s)
        \/ RowValues(s)
        \/ UpdateHeader(s)
        \/ AppendRecord(s)

SpecConcurrent == InitConcurrent /\ [][NextConcurrent]_vars

\* both calls of append_record_to_sheet are at their return
BothReturned == \A s \in Sessions : appends[s].line = 159

\* C14: under every interleaving of the backend requests of two sessions'
\* appends, no row below row 1 holds the header, and when both have returned
\* each session's record is a data row of its own below the rows found, laid
\* out under the first row, which has every expected column.
C14_ConcurrentAppendsDoNotConflict ==
    /\ \A r \in 2..Len(backend.sheet) : backend.sheet[r] # EXPECTED_HEADER
    /\ BothReturned =>
          /\ \E r1, r2 \in 2..Len(backend.sheet) :
                /\ r1 # r2
                /\ backend.sheet[r1] = RowOf(appends[1].record, backend.sheet[1])
                /\ backend.sheet[r2] = RowOf(appends[2].record, backend.sheet[1])
          /\ missing(backend.sheet[1]) = <<>>

=============================================================================
